---- MODULE Spec2Model ----
(***************************************************************************)
(* Model of src/sequences.py: the classes Sequence, DNASequence and        *)
(* RNASequence, and a caller that constructs instances and calls their     *)
(* methods.                                                                *)
(*                                                                         *)
(* A Python string is a TLA+ sequence of one-character strings.  An        *)
(* instance is a record: cls is its class, attrs the set of instance       *)
(* attributes that have been assigned, and sequence / quality their        *)
(* values (meaningful only when the attribute is in attrs; reading an      *)
(* attribute that is not in attrs is Python's AttributeError).             *)
(*                                                                         *)
(* Numbers: "/" is Python 3's true division.  A quality is an exact        *)
(* rational [num, den] in lowest terms with den > 0; the rounding of the   *)
(* float that Python produces is not modelled.                             *)
(*                                                                         *)
(* Model of src/ascii2shp.py: MarineTool.run() and Ascii2Shp._run_tool(),  *)
(* one step per call to the geoprocessor, the file system or the child     *)
(* process, whose outcome is chosen by the environment.                    *)
(***************************************************************************)
EXTENDS Integers, Sequences, FiniteSets, TLC

VARIABLES objs, ret

\* src/ascii2shp.py:
\*   has_types  whether the global name "types" resolves (the file uses
\*              types.StringTypes and types.ListType but never imports types)
\*   tool       the tool instance (self): its class and attributes
\*   pc         the position of run() / _run_tool()
\*   local      the local variables of the active functions and the
\*              exception being propagated
\*   gp         the geoprocessor: the extensions currently checked out
\*   log        the calls made to the outside and the messages logged, in order
VARIABLES has_types, tool, pc, local, gp, log

seqVars == <<objs, ret>>

toolVars == <<has_types, tool, pc, local, gp, log>>

vars == <<objs, ret, has_types, tool, pc, local, gp, log>>

\* ---------------------------------------------------------------- bounds
\* Total number of residues held by the caller's instances when a
\* constructor is called, the new argument included.
MaxResidues == 2

\* Total number of residues held by the caller's instances after the caller
\* binds the result of a method to a variable.
MaxHeld == 3

\* The number of instances one operation involves at most:
\* __add__(self, other).
Operands == 2

\* Characters the caller builds residue strings from.
Chars == {"A", "C", "G", "T", "U"}

\* Quality scores the caller passes to constructors.
Qualities == {0, 27}

\* ------------------------------------------------------------- rationals
RECURSIVE GCD(_, _)
GCD(a, b) == IF b = 0 THEN a ELSE GCD(b, a % b)

Abs(n) == IF n < 0 THEN -n ELSE n

\* n / d in lowest terms, d # 0
Rat(n, d) ==
    LET g == GCD(Abs(n), Abs(d))
        s == IF d < 0 THEN -1 ELSE 1
    IN  [num |-> (s * n) \div g, den |-> (s * d) \div g]

IntQ(n) == [num |-> n, den |-> 1]

\* k * q for an integer k
Times(k, q) == Rat(k * q.num, q.den)

Plus(p, q) == Rat(p.num * q.den + q.num * p.den, p.den * q.den)

\* q / k for an integer k # 0
TrueDiv(q, k) == Rat(q.num, q.den * k)

\* --------------------------------------------------------------- strings
Strings(n) == UNION {[1..k -> Chars] : k \in 0..n}

\* set(sequence)
CharSet(s) == {s[i] : i \in DOMAIN s}

\* reversed(s) that leaves the order as it is.
Reversed_SameOrder(s) == s

\* reversed(s)
Reversed(s) == [i \in 1..Len(s) |-> s[Len(s) + 1 - i]]

\* ------------------------------------------------------------- instances
\* The value of a call that raised: the caller receives no instance.
None == [cls |-> "NoneType", attrs |-> {}, sequence |-> <<>>, quality |-> IntQ(0)]

\* A fresh instance of class cls, before __init__ has assigned anything.
NewObject(cls) == [cls |-> cls, attrs |-> {}, sequence |-> <<>>, quality |-> IntQ(0)]

Returned(v, out) == [status |-> "returned", exc |-> "none", value |-> v, stdout |-> out]

Raised(e, out) == [status |-> "raised", exc |-> e, value |-> None, stdout |-> out]

\* Sequence.__init__: assigns both attributes.
Sequence_init(self, sequence, quality) ==
    [self EXCEPT !.attrs = {"sequence", "quality"},
                 !.sequence = sequence,
                 !.quality = quality]

\* Sequence(sequence, quality)
Sequence_new(sequence, quality) ==
    Returned(Sequence_init(NewObject("Sequence"), sequence, quality), <<>>)

DNAAlphabet == {"A", "C", "G", "T"}

RNAAlphabet == {"A", "C", "G", "U"}

\* DNASequence.__init__ checking the argument against the RNA alphabet.
DNASequence_new_RNAAlphabet(sequence, quality) ==
    IF CharSet(sequence) \subseteq RNAAlphabet
    THEN Returned(Sequence_init(NewObject("DNASequence"), sequence, quality),
                  <<sequence>>)
    ELSE Returned(NewObject("DNASequence"),
                  <<sequence, "The input sequence isn't valid DNA input">>)

\* DNASequence(sequence, quality): __init__ prints its argument, then either
\* initialises the instance or prints a message and returns normally, so the
\* constructor expression evaluates to the instance in both cases.
DNASequence_new(sequence, quality) ==
    IF CharSet(sequence) \subseteq DNAAlphabet
    THEN Returned(Sequence_init(NewObject("DNASequence"), sequence, quality),
                  <<sequence>>)
    ELSE Returned(NewObject("DNASequence"),
                  <<sequence, "The input sequence isn't valid DNA input">>)

\* RNASequence.__init__ checking the argument against the DNA alphabet.
RNASequence_new_DNAAlphabet(sequence, quality) ==
    IF CharSet(sequence) \subseteq DNAAlphabet
    THEN Returned(Sequence_init(NewObject("RNASequence"), sequence, quality), <<>>)
    ELSE Raised("Exception", <<>>)

\* RNASequence(sequence, quality): __init__ raises Exception on a character
\* outside the alphabet; the constructor expression has no value.
RNASequence_new(sequence, quality) ==
    IF CharSet(sequence) \subseteq RNAAlphabet
    THEN Returned(Sequence_init(NewObject("RNASequence"), sequence, quality), <<>>)
    ELSE Raised("Exception", <<>>)

\* --------------------------------------------------------------- methods
\* Attribute lookup on the class: __add__ is inherited by every class,
\* reverse_complement and transcribe are defined by DNASequence only.
Methods(cls) ==
    IF cls = "DNASequence"
    THEN {"__add__", "reverse_complement", "transcribe"}
    ELSE {"__add__"}

\* Sequence.__add__ averaging the two qualities without the lengths.
Sequence_add_Unweighted(self, other) ==
    IF "sequence" \notin self.attrs \/ "sequence" \notin other.attrs
    THEN Raised("AttributeError", <<>>)
    ELSE LET sequence == self.sequence \o other.sequence
             total == Plus(self.quality, other.quality)
             length == Len(self.sequence) + Len(other.sequence)
         IN  IF length = 0
             THEN Raised("ZeroDivisionError", <<>>)
             ELSE Returned(Sequence_init(NewObject("Sequence"), sequence,
                                         TrueDiv(total, 2)), <<>>)

\* Sequence.__add__ building its result with the class of self, whose
\* __init__ checks the alphabet.
Sequence_add_SelfClass(self, other) ==
    IF "sequence" \notin self.attrs \/ "sequence" \notin other.attrs
    THEN Raised("AttributeError", <<>>)
    ELSE LET sequence == self.sequence \o other.sequence
             total == Plus(Times(Len(self.sequence), self.quality),
                           Times(Len(other.sequence), other.quality))
             length == Len(self.sequence) + Len(other.sequence)
         IN  IF length = 0
             THEN Raised("ZeroDivisionError", <<>>)
             ELSE IF self.cls = "DNASequence"
             THEN DNASequence_new(sequence, TrueDiv(total, length))
             ELSE IF self.cls = "RNASequence"
             THEN RNASequence_new(sequence, TrueDiv(total, length))
             ELSE Sequence_new(sequence, TrueDiv(total, length))

\* Sequence.__add__(self, other)
Sequence_add(self, other) ==
    IF "sequence" \notin self.attrs \/ "sequence" \notin other.attrs
    THEN Raised("AttributeError", <<>>)
    ELSE LET sequence == self.sequence \o other.sequence
             total == Plus(Times(Len(self.sequence), self.quality),
                           Times(Len(other.sequence), other.quality))
             length == Len(self.sequence) + Len(other.sequence)
         IN  IF length = 0
             THEN Raised("ZeroDivisionError", <<>>)
             ELSE Returned(Sequence_init(NewObject("Sequence"), sequence,
                                         TrueDiv(total, length)), <<>>)

\* The dictionary of DNASequence.reverse_complement
complement == ("A" :> "T") @@ ("T" :> "A") @@ ("C" :> "G") @@ ("G" :> "C")

\* The for loop of reverse_complement: appends the complement of each base
\* of bases, in order, to rc_seq.
RECURSIVE rc_loop(_, _)
rc_loop(bases, rc_seq) ==
    IF bases = <<>>
    THEN rc_seq
    ELSE rc_loop(Tail(bases), rc_seq \o <<complement[Head(bases)]>>)

\* DNASequence.reverse_complement(self)
reverse_complement(self) ==
    IF "sequence" \notin self.attrs
    THEN Raised("AttributeError", <<>>)
    ELSE IF ~(CharSet(self.sequence) \subseteq DOMAIN complement)
    THEN Raised("KeyError", <<>>)
    ELSE Sequence_new(rc_loop(Reversed(self.sequence), <<>>), self.quality)

\* DNASequence.transcribe with the test of the comprehension inverted.
transcribe_Inverted(self) ==
    IF "sequence" \notin self.attrs
    THEN Raised("AttributeError", <<>>)
    ELSE LET transcribed ==
                 [i \in 1..Len(self.sequence) |->
                     IF self.sequence[i] = "T" THEN self.sequence[i] ELSE "U"]
         IN  RNASequence_new(transcribed, self.quality)

\* DNASequence.transcribe(self)
transcribe(self) ==
    IF "sequence" \notin self.attrs
    THEN Raised("AttributeError", <<>>)
    ELSE LET transcribed ==
                 [i \in 1..Len(self.sequence) |->
                     IF self.sequence[i] # "T" THEN self.sequence[i] ELSE "U"]
         IN  RNASequence_new(transcribed, self.quality)

\* obj.name(...): the method is looked up on the class of obj first.
CallMethod(obj, name, outcome) ==
    IF name \in Methods(obj.cls) THEN outcome ELSE Raised("AttributeError", <<>>)

\* ----------------------------------------------------------------- caller
\* The record of the last call: what was called, on what, and its outcome.
Call(op, args, outcome) ==
    [op |-> op, args |-> args, status |-> outcome.status, exc |-> outcome.exc,
     value |-> outcome.value, stdout |-> outcome.stdout]

RECURSIVE TotalLen(_)
TotalLen(os) == IF os = <<>> THEN 0 ELSE Len(Head(os).sequence) + TotalLen(Tail(os))

\* The residue strings a constructor can be called with: the caller holds
\* fewer than Operands instances and stays within MaxResidues residues.
Arguments ==
    IF Len(objs) < Operands /\ TotalLen(objs) <= MaxResidues
    THEN Strings(MaxResidues - TotalLen(objs))
    ELSE {}

\* x = Cls(s, q): the instance is bound to a variable of the caller unless
\* the constructor raised.
Bind(outcome) ==
    IF outcome.status = "returned" THEN Append(objs, outcome.value) ELSE objs

\* No call has been made on the sequence classes.
NoCall == Call("none", <<>>, Raised("none", <<>>))

\* No tool has been constructed.
NoTool ==
    /\ has_types = FALSE
    /\ tool = [cls |-> "none"]
    /\ pc = "none"
    /\ local = [exc |-> "none"]
    /\ gp = {}
    /\ log = <<>>

Init ==
    /\ objs = <<>>
    /\ ret = NoCall
    /\ NoTool

NewSequence ==
    \E s \in Arguments, q \in Qualities :
        /\ objs' = Bind(Sequence_new(s, IntQ(q)))
        /\ ret' = Call("Sequence", <<s, IntQ(q)>>, Sequence_new(s, IntQ(q)))
        /\ UNCHANGED toolVars

NewDNASequence ==
    \E s \in Arguments, q \in Qualities :
        /\ objs' = Bind(DNASequence_new(s, IntQ(q)))
        /\ ret' = Call("DNASequence", <<s, IntQ(q)>>, DNASequence_new(s, IntQ(q)))
        /\ UNCHANGED toolVars

NewRNASequence ==
    \E s \in Arguments, q \in Qualities :
        /\ objs' = Bind(RNASequence_new(s, IntQ(q)))
        /\ ret' = Call("RNASequence", <<s, IntQ(q)>>, RNASequence_new(s, IntQ(q)))
        /\ UNCHANGED toolVars

\* objs[i] + objs[j] with __add__ starting from "result = self" instead of
\* "result = Sequence()": the assignments to result then write into self.
Add_InPlace ==
    \E i \in DOMAIN objs, j \in DOMAIN objs :
        LET outcome == CallMethod(objs[i], "__add__", Sequence_add(objs[i], objs[j]))
        IN  /\ ret' = Call("__add__", <<objs[i], objs[j]>>, outcome)
            /\ objs' = IF outcome.status = "returned"
                       THEN [objs EXCEPT ![i] = [outcome.value EXCEPT !.cls = objs[i].cls]]
                       ELSE objs
            /\ UNCHANGED toolVars

\* objs[i] + objs[j]
Add ==
    \E i \in DOMAIN objs, j \in DOMAIN objs :
        /\ ret' = Call("__add__", <<objs[i], objs[j]>>,
                       CallMethod(objs[i], "__add__", Sequence_add(objs[i], objs[j])))
        /\ UNCHANGED <<objs, toolVars>>

\* What a method can be called on without arguments: a variable of the
\* caller, or the value of the call just made (a chained call such as
\* x.reverse_complement().reverse_complement()).
Receivers ==
    {objs[i] : i \in DOMAIN objs}
        \cup (IF ret.status = "returned" THEN {ret.value} ELSE {})

\* o.reverse_complement()
ReverseComplement ==
    \E o \in Receivers :
        /\ ret' = Call("reverse_complement", <<o>>,
                       CallMethod(o, "reverse_complement", reverse_complement(o)))
        /\ UNCHANGED <<objs, toolVars>>

\* o.transcribe()
Transcribe ==
    \E o \in Receivers :
        /\ ret' = Call("transcribe", <<o>>,
                       CallMethod(o, "transcribe", transcribe(o)))
        /\ UNCHANGED <<objs, toolVars>>

\* x = <the call just made>: the caller binds the instance a method returned
\* to a variable, a new one (i = Len(objs) + 1) or one that is rebound.
Keep ==
    \E i \in 1..Operands :
        /\ ret.op \in {"__add__", "reverse_complement", "transcribe"}
        /\ ret.status = "returned"
        /\ i <= Len(objs) + 1
        /\ LET bound == IF i <= Len(objs)
                        THEN [objs EXCEPT ![i] = ret.value]
                        ELSE Append(objs, ret.value)
           IN  /\ TotalLen(bound) <= MaxHeld
               /\ objs' = bound
        /\ UNCHANGED <<ret, toolVars>>

Next ==
    \/ NewSequence
    \/ NewDNASequence
    \/ NewRNASequence
    \/ Add
    \/ ReverseComplement
    \/ Transcribe
    \/ Keep

Spec == Init /\ [][Next]_vars

TypeOK ==
    /\ Len(objs) <= Operands
    /\ \A i \in DOMAIN objs : objs[i].cls \in {"Sequence", "DNASequence", "RNASequence"}

\* ------------------------------------------------------- claim vocabulary
HasFields(o) == o.attrs = {"sequence", "quality"}

\* o is a DNASequence instance that satisfies the DNA invariant.
ValidDNA(o) ==
    /\ o.cls = "DNASequence"
    /\ HasFields(o)
    /\ CharSet(o.sequence) \subseteq DNAAlphabet

IsConstructor(cls) == ret.op = cls

\* The Watson-Crick pairing A<->T, C<->G, stated independently of the code.
Pairing(b) ==
    CASE b = "A" -> "T"
      [] b = "T" -> "A"
      [] b = "C" -> "G"
      [] b = "G" -> "C"
      [] OTHER -> "?"

\* ------------------------------------------------------------------- C1
\* C1: constructing DNASequence(s, q) with some character of s outside
\* {A,C,G,T} fails with an error, and the caller receives no instance.
C1_InvalidDNARejected ==
    (IsConstructor("DNASequence") /\ ~(CharSet(ret.args[1]) \subseteq DNAAlphabet))
        => (ret.status = "raised" /\ ret.value = None)

\* ------------------------------------------------------------------- C2
\* C2: constructing DNASequence(s, q) with s over {A,C,G,T} (the empty string
\* included) succeeds, and the instance the caller receives has residues s
\* and quality q.
C2_ValidDNAConstructed ==
    (IsConstructor("DNASequence") /\ CharSet(ret.args[1]) \subseteq DNAAlphabet)
        => /\ ret.status = "returned"
           /\ ret.value.cls = "DNASequence"
           /\ HasFields(ret.value)
           /\ ret.value.sequence = ret.args[1]
           /\ ret.value.quality = ret.args[2]
           /\ objs[Len(objs)] = ret.value

C2_Witness ==
    /\ IsConstructor("DNASequence")
    /\ ret.status = "returned"
    /\ ret.args[1] = <<"T", "A">>
    /\ ret.args[2] = IntQ(27)
    /\ ret.value.sequence = <<"T", "A">>

C2_WitnessEmpty ==
    /\ IsConstructor("DNASequence")
    /\ ret.args[1] = <<>>
    /\ HasFields(ret.value)

\* ------------------------------------------------------------------- C3
\* The RNA half of C3: RNASequence(s, q) raises when s has a character
\* outside {A,C,G,U} and otherwise returns an instance with residues s and
\* quality q.
RNAConstruction ==
    /\ (IsConstructor("RNASequence") /\ ~(CharSet(ret.args[1]) \subseteq RNAAlphabet))
           => (ret.status = "raised" /\ ret.exc = "Exception" /\ ret.value = None)
    /\ (IsConstructor("RNASequence") /\ CharSet(ret.args[1]) \subseteq RNAAlphabet)
           => /\ ret.status = "returned"
              /\ ret.value.cls = "RNASequence"
              /\ HasFields(ret.value)
              /\ ret.value.sequence = ret.args[1]
              /\ ret.value.quality = ret.args[2]

\* C3: RNASequence(s, q) fails with an error when s has a character outside
\* {A,C,G,U} and succeeds with residues s and quality q otherwise, and a
\* DNASequence construction that violates its alphabet fails in the same way
\* (it raises the same kind of error).
C3_RNAFailsLikeDNA ==
    /\ RNAConstruction
    /\ (IsConstructor("DNASequence") /\ ~(CharSet(ret.args[1]) \subseteq DNAAlphabet))
           => (ret.status = "raised" /\ ret.exc = "Exception")

\* ------------------------------------------------------------------- C4
\* C4: for two sequences a and b (instances that have residues and quality)
\* that are not both empty, a + b returns a Sequence whose residues are a's
\* followed by b's and whose quality q satisfies
\* q * (len(a) + len(b)) = len(a) * a.quality + len(b) * b.quality.
C4_WeightedAverage ==
    (/\ ret.op = "__add__"
     /\ HasFields(ret.args[1])
     /\ HasFields(ret.args[2])
     /\ Len(ret.args[1].sequence) + Len(ret.args[2].sequence) > 0)
        => LET a == ret.args[1]
               b == ret.args[2]
           IN  /\ ret.status = "returned"
               /\ ret.value.cls = "Sequence"
               /\ HasFields(ret.value)
               /\ Len(ret.value.sequence) = Len(a.sequence) + Len(b.sequence)
               /\ \A i \in 1..Len(a.sequence) : ret.value.sequence[i] = a.sequence[i]
               /\ \A i \in 1..Len(b.sequence) :
                      ret.value.sequence[Len(a.sequence) + i] = b.sequence[i]
               /\ ret.value.quality.den > 0
               /\ ret.value.quality.num * (Len(a.sequence) + Len(b.sequence))
                      * a.quality.den * b.quality.den
                  = ret.value.quality.den
                      * (Len(a.sequence) * a.quality.num * b.quality.den
                         + Len(b.sequence) * b.quality.num * a.quality.den)

\* Operands of different lengths and different qualities, the result neither's.
C4_Witness ==
    /\ ret.op = "__add__"
    /\ ret.status = "returned"
    /\ Len(ret.args[1].sequence) = 2
    /\ Len(ret.args[2].sequence) = 1
    /\ ret.args[1].quality = [num |-> 27, den |-> 2]
    /\ ret.args[2].quality = IntQ(0)
    /\ ret.value.quality = IntQ(9)

\* ------------------------------------------------------------------- C5
\* C5: a + b for two sequences with zero residues each fails with a
\* DegenerateCombination error and returns no sequence.
C5_EmptyCombinationDegenerate ==
    (/\ ret.op = "__add__"
     /\ HasFields(ret.args[1])
     /\ HasFields(ret.args[2])
     /\ Len(ret.args[1].sequence) + Len(ret.args[2].sequence) = 0)
        => /\ ret.status = "raised"
           /\ ret.exc = "DegenerateCombination"
           /\ ret.value = None

\* ------------------------------------------------------------------- C6
\* C6: when s.reverse_complement() has returned for a valid DNA sequence s,
\* reverse_complement can be called on the instance it returned, and that
\* call returns residues equal to those of s.
C6_DoubleReverseComplement ==
    [][(/\ ret.op = "reverse_complement"
        /\ ret.status = "returned"
        /\ ValidDNA(ret.args[1])
        /\ ret'.op = "reverse_complement"
        /\ ret'.args[1] = ret.value)
           => /\ ret'.status = "returned"
              /\ ret'.value.sequence = ret.args[1].sequence]_vars

\* ------------------------------------------------------------------- C7
\* C7: for a valid DNA sequence s of length n, s.reverse_complement() returns
\* a sequence of length n whose residue at position i is the Watson-Crick
\* partner of s's residue at position n-1-i (counted from 0), with the
\* quality of s.
C7_ReverseComplement ==
    (ret.op = "reverse_complement" /\ ValidDNA(ret.args[1]))
        => LET s == ret.args[1]
               n == Len(s.sequence)
           IN  /\ ret.status = "returned"
               /\ HasFields(ret.value)
               /\ Len(ret.value.sequence) = n
               /\ \A i \in 1..n : ret.value.sequence[i] = Pairing(s.sequence[n + 1 - i])
               /\ ret.value.quality = s.quality

C7_Witness ==
    /\ ret.op = "reverse_complement"
    /\ ret.status = "returned"
    /\ ret.args[1].sequence = <<"A", "G">>
    /\ ret.args[1].quality = IntQ(27)
    /\ ret.value.sequence = <<"C", "T">>

\* ------------------------------------------------------------------- C8
\* C8: for a valid DNA sequence s, the residues of s.transcribe() have the
\* length of s's residues, are U exactly where s has T, and equal s's
\* residue everywhere else.
C8_TranscribeSubstitutes ==
    (ret.op = "transcribe" /\ ValidDNA(ret.args[1]))
        => LET s == ret.args[1].sequence
               r == ret.value.sequence
           IN  /\ HasFields(ret.value)
               /\ Len(r) = Len(s)
               /\ \A i \in 1..Len(s) :
                      /\ (r[i] = "U") <=> (s[i] = "T")
                      /\ (s[i] # "T") => (r[i] = s[i])

C8_Witness ==
    /\ ret.op = "transcribe"
    /\ ret.status = "returned"
    /\ ret.args[1].sequence = <<"G", "T">>
    /\ ret.value.sequence = <<"G", "U">>

\* ------------------------------------------------------------------- C9
\* C9: for a valid DNA sequence s, s.transcribe() does not fail: it returns
\* an RNASequence whose residues are all in {A,C,G,U} and whose quality is
\* that of s.
C9_TranscribeSucceeds ==
    (ret.op = "transcribe" /\ ValidDNA(ret.args[1]))
        => /\ ret.status = "returned"
           /\ ret.value.cls = "RNASequence"
           /\ HasFields(ret.value)
           /\ CharSet(ret.value.sequence) \subseteq RNAAlphabet
           /\ ret.value.quality = ret.args[1].quality

C9_Witness ==
    /\ ret.op = "transcribe"
    /\ ValidDNA(ret.args[1])
    /\ ret.args[1].sequence = <<"T", "T">>
    /\ ret.args[1].quality = IntQ(27)
    /\ ret.value.cls = "RNASequence"

\* ------------------------------------------------------------------ C10
\* o satisfies the invariant of its class: a DNASequence has residues over
\* {A,C,G,T}, an RNASequence has residues over {A,C,G,U}.
ValidInstance(o) ==
    /\ (o.cls = "DNASequence") => (HasFields(o) /\ CharSet(o.sequence) \subseteq DNAAlphabet)
    /\ (o.cls = "RNASequence") => (HasFields(o) /\ CharSet(o.sequence) \subseteq RNAAlphabet)

\* C10: every instance the caller holds, and every instance a call returned,
\* satisfies the invariant of its class; a call that failed returned no
\* instance.
C10_InstancesValid ==
    /\ \A i \in DOMAIN objs : ValidInstance(objs[i])
    /\ (ret.status = "returned") => ValidInstance(ret.value)
    /\ (ret.status = "raised") => (ret.value = None)

\* ------------------------------------------------------------------ C11
MethodNames == {"__add__", "reverse_complement", "transcribe"}

\* C11: a step in which __add__, reverse_complement or transcribe is called
\* leaves every instance the caller holds, the operands included, with the
\* residues and quality it had; the value returned is not written into any
\* of them.
C11_OperandsUnchanged ==
    [][(ret' # ret /\ ret'.op \in MethodNames)
           => /\ Len(objs') = Len(objs)
              /\ \A i \in DOMAIN objs :
                     /\ objs'[i].cls = objs[i].cls
                     /\ objs'[i].attrs = objs[i].attrs
                     /\ objs'[i].sequence = objs[i].sequence
                     /\ objs'[i].quality = objs[i].quality]_vars

\* Two instances are held, their sum has been returned and differs from both,
\* and both are what they were constructed as.
C11_Witness ==
    /\ ret.op = "__add__"
    /\ ret.status = "returned"
    /\ Len(objs) = 2
    /\ objs[1] = ret.args[1]
    /\ objs[2] = ret.args[2]
    /\ objs[1].sequence = <<"A">>
    /\ objs[2].sequence = <<"C">>
    /\ ret.value.sequence = <<"A", "C">>

\* ------------------------------------------------------------------ C12
\* C12: a + b for two sequences of any classes that are not both empty
\* returns a generic Sequence whose residues are not checked against an
\* alphabet: its characters are those of a together with those of b, so a
\* valid DNA sequence containing T plus a valid RNA sequence containing U
\* gives residues containing both T and U.
C12_CombineUnvalidated ==
    (/\ ret.op = "__add__"
     /\ HasFields(ret.args[1])
     /\ HasFields(ret.args[2])
     /\ Len(ret.args[1].sequence) + Len(ret.args[2].sequence) > 0)
        => /\ ret.status = "returned"
           /\ ret.value.cls = "Sequence"
           /\ CharSet(ret.value.sequence)
                  = CharSet(ret.args[1].sequence) \cup CharSet(ret.args[2].sequence)
           /\ (/\ ValidDNA(ret.args[1])
               /\ "T" \in CharSet(ret.args[1].sequence)
               /\ ret.args[2].cls = "RNASequence"
               /\ "U" \in CharSet(ret.args[2].sequence))
                  => {"T", "U"} \subseteq CharSet(ret.value.sequence)

C12_Witness ==
    /\ ret.op = "__add__"
    /\ ret.status = "returned"
    /\ ret.args[1].cls = "DNASequence"
    /\ ret.args[1].sequence = <<"T">>
    /\ ret.args[2].cls = "RNASequence"
    /\ ret.args[2].sequence = <<"U">>
    /\ ret.value.cls = "Sequence"
    /\ ret.value.sequence = <<"T", "U">>

\* ------------------------------------------------------------------ C13
\* C13: reverse_complement called on a DNASequence instance whose residues
\* are not all in {A,C,G,T} (such as the instance a construction with
\* invalid input hands out) fails with the alphabet error, not with another
\* kind of failure and not with a result.
C13_ReverseComplementDefensive ==
    (/\ ret.op = "reverse_complement"
     /\ ret.args[1].cls = "DNASequence"
     /\ ~ValidDNA(ret.args[1]))
        => /\ ret.status = "raised"
           /\ ret.exc \in {"InvalidAlphabet", "Exception"}
           /\ ret.value = None

\* ======================================================= src/ascii2shp.py
\* The largest number of extensions a tool requests.
MaxExtensions == 2

\* Python's None where a string is expected.
NoneStr == "<None>"

\* The extensions a tool requests are named 1, 2, ...
ExtensionLists == {[i \in 1..n |-> i] : n \in 0..MaxExtensions}

Products == {NoneStr, "ArcInfo"}

\* Values of the Ascii2Shp parameters after _parse_string_arg (stripped,
\* "#" turned into None, the default "comma" filled in for delimiter).
Delimiters == {"comma", "Space or Tab", "user specified", "semicolon"}

DelimiterCharacters == {NoneStr, "", ";", ";;"}

QuoteCharacters == {NoneStr, "Single Quote", "double quote", "backtick"}

CoordinateSystems == {NoneStr, "WGS 1984"}

OptionalColumns == {NoneStr, "3"}

\* s.lower() on the strings above
Lower(s) ==
    CASE s = "Space or Tab" -> "space or tab"
      [] s = "Single Quote" -> "single quote"
      [] s = "Available" -> "available"
      [] OTHER -> s

\* len(s) on the values of delimiter_character
StrLen(s) ==
    CASE s = "" -> 0
      [] s = ";" -> 1
      [] s = ";;" -> 2
      [] OTHER -> 6

\* The local variables of run(), _checkout_extensions() and _run_tool()
\* before run() starts; exc is the exception being propagated.
NoLocals ==
    [checkin |-> 0, k |-> 1, got_extensions |-> <<>>, got_is_none |-> FALSE,
     cmd |-> <<>>, exc |-> "none"]

\* A tool after __init__: MarineTool itself, a derived class that implements
\* _run_tool, or Ascii2Shp, which passes neither product nor extensions to
\* MarineTool.__init__.  _indent_level is 1 + 1 after __init__.
Tools ==
    [cls : {"MarineTool", "Derived"},
     product : Products,
     requested : BOOLEAN,
     extensions : ExtensionLists,
     indent_level : {2},
     delimiter : {NoneStr}, delimiter_character : {NoneStr},
     comment_string : {NoneStr}, quote_character : {NoneStr},
     coordinate_system : {NoneStr}, zcol : {NoneStr}, mcol : {NoneStr},
     locale : {NoneStr}]
    \cup
    [cls : {"Ascii2Shp"},
     product : {NoneStr},
     requested : {FALSE},
     extensions : {<<>>},
     indent_level : {2},
     delimiter : Delimiters, delimiter_character : DelimiterCharacters,
     comment_string : {NoneStr, "\\#"}, quote_character : QuoteCharacters,
     coordinate_system : CoordinateSystems, zcol : OptionalColumns,
     mcol : {NoneStr}, locale : OptionalColumns]

\* MarineTool.__init__ evaluates types.StringTypes when extensions is not
\* None, so without the name "types" only tools without extensions exist.
InitTool ==
    /\ objs = <<>>
    /\ ret = NoCall
    /\ has_types \in BOOLEAN
    /\ tool \in Tools
    /\ tool.requested \/ tool.extensions = <<>>
    /\ tool.requested => has_types
    /\ pc = "run"
    /\ local = NoLocals
    /\ gp = {}
    /\ log = <<>>

\* A call to the outside or a logged message: what, on what, with what result.
Event(name, arg, result) == <<name, arg, result>>

\* The calls and messages of a step are appended to the log.
Logged(events) == log' = log \o events

\* The check-in made only after a _run_tool that returned (no finally).
AfterRunTool_CheckinOnSuccess(checkin, exc) ==
    IF checkin = 1 /\ exc = "none" /\ tool.extensions # <<>>
    THEN [pc |-> "CheckInExtension", exc |-> exc]
    ELSE [pc |-> (IF exc = "none" THEN "complete" ELSE "except"), exc |-> exc]

\* _checkin_extensions is entered (run(), finally clause) when checkin is
\* set; without the name "types" its first statement raises NameError, which
\* replaces the exception being propagated.
AfterRunTool(checkin, exc) ==
    IF checkin = 1
    THEN IF ~has_types
         THEN [pc |-> "except", exc |-> "NameError"]
         ELSE IF tool.extensions = <<>>
         THEN [pc |-> (IF exc = "none" THEN "complete" ELSE "except"), exc |-> exc]
         ELSE [pc |-> "CheckInExtension", exc |-> exc]
    ELSE [pc |-> (IF exc = "none" THEN "complete" ELSE "except"), exc |-> exc]

\* run(): from its first statement to the first call to the outside.
RunStart ==
    /\ pc = "run"
    /\ IF tool.product # NoneStr
       THEN /\ pc' = "CheckProduct"
            /\ UNCHANGED local
       ELSE IF tool.requested
       THEN IF ~has_types
            THEN /\ pc' = "except"
                 /\ local' = [local EXCEPT !.checkin = 1, !.exc = "NameError"]
            ELSE IF tool.extensions = <<>>
            THEN /\ pc' = "_run_tool"
                 /\ local' = [local EXCEPT !.checkin = 1]
            ELSE /\ pc' = "CheckExtension"
                 /\ local' = [local EXCEPT !.checkin = 1, !.k = 1]
       ELSE /\ pc' = "_run_tool"
            /\ UNCHANGED local
    /\ UNCHANGED <<seqVars, has_types, tool, gp, log>>

\* run() after _set_product returned.
AfterSetProduct ==
    IF tool.requested
    THEN IF ~has_types
         THEN [pc |-> "except", checkin |-> 1, exc |-> "NameError"]
         ELSE IF tool.extensions = <<>>
         THEN [pc |-> "_run_tool", checkin |-> 1, exc |-> "none"]
         ELSE [pc |-> "CheckExtension", checkin |-> 1, exc |-> "none"]
    ELSE [pc |-> "_run_tool", checkin |-> 0, exc |-> "none"]

\* _set_product: Geoprocessor.instance.CheckProduct(self._product)
CheckProduct ==
    /\ pc = "CheckProduct"
    /\ \E status \in {"Available", "NotLicensed", "raise"} :
        IF status = "raise"
        THEN /\ pc' = "except"
             /\ local' = [local EXCEPT !.exc = "COMError"]
             /\ Logged(<<Event("CheckProduct", tool.product, "raise"), Event("_log", "error", "")>>)
        ELSE IF Lower(status) # "available"
        THEN /\ pc' = "except"
             /\ local' = [local EXCEPT !.exc = "MarineError"]
             /\ Logged(<<Event("CheckProduct", tool.product, status), Event("AddError", "MarineError", "")>>)
        ELSE /\ pc' = "SetProduct"
             /\ UNCHANGED local
             /\ Logged(<<Event("CheckProduct", tool.product, status)>>)
    /\ UNCHANGED <<seqVars, has_types, tool, gp>>

\* _set_product: Geoprocessor.instance.SetProduct(self._product)
SetProduct ==
    /\ pc = "SetProduct"
    /\ \E ok \in BOOLEAN :
        IF ok
        THEN /\ pc' = AfterSetProduct.pc
             /\ local' = [local EXCEPT !.checkin = AfterSetProduct.checkin,
                                       !.exc = AfterSetProduct.exc, !.k = 1]
             /\ Logged(<<Event("SetProduct", tool.product, "ok")>>)
        ELSE /\ pc' = "except"
             /\ local' = [local EXCEPT !.exc = "COMError"]
             /\ Logged(<<Event("SetProduct", tool.product, "raise"), Event("_log", "error", "")>>)
    /\ UNCHANGED <<seqVars, has_types, tool, gp>>

\* The except clause of _checkout_extensions: it checks in the extensions
\* of got_extensions (iterating over None raises TypeError, which the inner
\* except discards) and then falls off the end of the function, so the
\* exception is not propagated and run() goes on to _run_tool.
CheckoutCleanup ==
    IF local.got_is_none
    THEN [gp |-> gp, events |-> <<Event("except", "_checkout_extensions", "")>>]
    ELSE [gp |-> gp \ {local.got_extensions[i] : i \in DOMAIN local.got_extensions},
          events |-> <<Event("except", "_checkout_extensions", "")>>
                         \o [i \in DOMAIN local.got_extensions |->
                                Event("CheckInExtension", local.got_extensions[i], "")]]

\* _checkout_extensions: status = Geoprocessor.instance.CheckExtension(e) and
\* the test of the status.  The handler of a raising call builds its message
\* with "..." + e + "...", where e is now the exception, which raises
\* TypeError before anything is logged.
CheckExtension ==
    /\ pc = "CheckExtension"
    /\ \E status \in {"Available", "NotLicensed", "raise"} :
        LET e == tool.extensions[local.k]
        IN  IF status = "raise"
            THEN /\ pc' = "_run_tool"
                 /\ gp' = CheckoutCleanup.gp
                 /\ Logged(<<Event("CheckExtension", e, "raise")>> \o CheckoutCleanup.events)
            ELSE IF Lower(status) # "available"
            THEN /\ pc' = "_run_tool"
                 /\ gp' = CheckoutCleanup.gp
                 /\ Logged(<<Event("CheckExtension", e, status),
                             Event("AddError", "MarineError", "")>>
                               \o CheckoutCleanup.events)
            ELSE /\ pc' = "CheckOutExtension"
                 /\ gp' = gp
                 /\ Logged(<<Event("CheckExtension", e, status)>>)
    /\ UNCHANGED <<seqVars, has_types, tool, local>>

\* _checkout_extensions: Geoprocessor.instance.CheckOutExtension(e), then
\* got_extensions = got_extensions.append(e), which sets got_extensions to
\* None (and raises AttributeError when it already is None), then the next
\* extension.
CheckOutExtension ==
    /\ pc = "CheckOutExtension"
    /\ \E ok \in BOOLEAN :
        LET e == tool.extensions[local.k]
        IN  IF ~ok
            THEN /\ pc' = "_run_tool"
                 /\ gp' = CheckoutCleanup.gp
                 /\ UNCHANGED local
                 /\ Logged(<<Event("CheckOutExtension", e, "raise")>> \o CheckoutCleanup.events)
            ELSE IF local.got_is_none
            THEN /\ pc' = "_run_tool"
                 /\ gp' = gp \cup {e}
                 /\ UNCHANGED local
                 /\ Logged(<<Event("CheckOutExtension", e, "ok"),
                             Event("except", "_checkout_extensions", "")>>)
            ELSE /\ pc' = IF local.k < Len(tool.extensions)
                          THEN "CheckExtension" ELSE "_run_tool"
                 /\ gp' = gp \cup {e}
                 /\ local' = [local EXCEPT !.got_is_none = TRUE,
                                           !.got_extensions = <<>>,
                                           !.k = @ + 1]
                 /\ Logged(<<Event("CheckOutExtension", e, "ok")>>)
    /\ UNCHANGED <<seqVars, has_types, tool>>

\* _run_tool has ended with exception exc ("none": it returned).
EndRunTool(exc, events) ==
    /\ pc' = AfterRunTool(local.checkin, exc).pc
    /\ local' = [local EXCEPT !.exc = AfterRunTool(local.checkin, exc).exc, !.k = 1]
    /\ Logged(events \o <<Event("_run_tool", IF exc = "none" THEN "return" ELSE "raise", exc)>>)

\* MarineTool._run_tool: not implemented.
RunToolBase ==
    /\ pc = "_run_tool"
    /\ tool.cls = "MarineTool"
    /\ EndRunTool("MarineError",
                  <<Event("_run_tool", "enter", tool.cls), Event("AddError", "MarineError", "")>>)
    /\ UNCHANGED <<seqVars, has_types, tool, gp>>

\* The _run_tool of a derived class: it returns or raises.
RunToolDerived ==
    /\ pc = "_run_tool"
    /\ tool.cls = "Derived"
    /\ \E exc \in {"none", "MarineError", "COMError"} :
        EndRunTool(exc, <<Event("_run_tool", "enter", tool.cls)>>)
    /\ UNCHANGED <<seqVars, has_types, tool, gp>>

\* _checkin_extensions: Geoprocessor.instance.CheckInExtension(e) for the
\* next extension of the list; a failure is discarded.
CheckInExtension ==
    /\ pc = "CheckInExtension"
    /\ \E ok \in BOOLEAN :
        LET e == tool.extensions[local.k]
        IN  /\ gp' = IF ok THEN gp \ {e} ELSE gp
            /\ Logged(<<Event("CheckInExtension", e, IF ok THEN "ok" ELSE "raise")>>)
    /\ pc' = IF local.k < Len(tool.extensions) THEN "CheckInExtension"
             ELSE IF local.exc = "none" THEN "complete" ELSE "except"
    /\ local' = [local EXCEPT !.k = @ + 1]
    /\ UNCHANGED <<seqVars, has_types, tool>>

\* run(): the statements after the finally clause; run() returns.
RunComplete ==
    /\ pc = "complete"
    /\ pc' = "returned"
    /\ tool' = [tool EXCEPT !.indent_level = @ - 1]
    /\ Logged(<<Event("_log", "verbose", "completed successfully")>>)
    /\ UNCHANGED <<seqVars, has_types, local, gp>>

\* run(): the outer except clause; the exception is raised again.
RunFailed ==
    /\ pc = "except"
    /\ pc' = "raised"
    /\ tool' = [tool EXCEPT !.indent_level = @ - 1]
    /\ Logged(<<Event("_log", "error", "failed")>>)
    /\ UNCHANGED <<seqVars, has_types, local, gp>>

\* ------------------------------------------------- Ascii2Shp._run_tool
ValidDelimiters == {"comma", "space or tab", "user specified"}

ValidQuoteCharacters == {"single quote", "double quote"}

\* The validation without the test of the output shapefile.
ValidateParameters_Overwrite(isfile, exists) ==
    LET t1 == [tool EXCEPT !.delimiter = Lower(@)]
        t2 == [t1 EXCEPT !.comment_string = IF @ = "\\#" THEN "#" ELSE @]
        t3 == [t2 EXCEPT !.quote_character = Lower(@)]
        called == <<Event("isfile", "input_textfile", IF isfile THEN "True" ELSE "False")>>
        marine == <<Event("AddError", "MarineError", "")>>
        checked == called \o <<Event("Exists", "output_shapefile", exists)>>
    IN  IF ~isfile
        THEN [exc |-> "MarineError", tool |-> tool, events |-> called \o marine]
        ELSE IF tool.delimiter # NoneStr /\ Lower(tool.delimiter) \notin ValidDelimiters
        THEN [exc |-> "MarineError", tool |-> tool, events |-> checked \o marine]
        ELSE IF /\ tool.delimiter # NoneStr
                /\ Lower(tool.delimiter) = "user specified"
                /\ (\/ tool.delimiter_character = NoneStr
                    \/ StrLen(tool.delimiter_character) # 1)
        THEN [exc |-> "MarineError", tool |-> t1, events |-> checked \o marine]
        ELSE IF /\ tool.quote_character # NoneStr
                /\ Lower(tool.quote_character) \notin ValidQuoteCharacters
        THEN [exc |-> "MarineError", tool |-> t2, events |-> checked \o marine]
        ELSE [exc |-> "none", tool |-> t3, events |-> checked]

\* Ascii2Shp._run_tool, "Validate input parameters": the exception raised
\* ("none" when every test passes), the attributes as the tests leave them
\* and the calls made.  isfile is the value of os.path.isfile, exists the
\* outcome of GpDispatch.Exists.
ValidateParameters(isfile, exists) ==
    LET t1 == [tool EXCEPT !.delimiter = Lower(@)]
        t2 == [t1 EXCEPT !.comment_string = IF @ = "\\#" THEN "#" ELSE @]
        t3 == [t2 EXCEPT !.quote_character = Lower(@)]
        called == <<Event("isfile", "input_textfile", IF isfile THEN "True" ELSE "False")>>
        marine == <<Event("AddError", "MarineError", "")>>
    IN  IF ~isfile
        THEN [exc |-> "MarineError", tool |-> tool, events |-> called \o marine]
        ELSE IF exists = "raise"
        THEN [exc |-> "COMError", tool |-> tool,
              events |-> called \o <<Event("Exists", "output_shapefile", exists),
                                     Event("_log", "error", "")>>]
        ELSE IF exists = "True"
        THEN [exc |-> "MarineError", tool |-> tool,
              events |-> called \o <<Event("Exists", "output_shapefile", exists)>> \o marine]
        ELSE LET checked == called \o <<Event("Exists", "output_shapefile", exists)>>
             IN  IF tool.delimiter # NoneStr /\ Lower(tool.delimiter) \notin ValidDelimiters
                 THEN [exc |-> "MarineError", tool |-> tool, events |-> checked \o marine]
                 ELSE IF /\ tool.delimiter # NoneStr
                         /\ Lower(tool.delimiter) = "user specified"
                         /\ (\/ tool.delimiter_character = NoneStr
                             \/ StrLen(tool.delimiter_character) # 1)
                 THEN [exc |-> "MarineError", tool |-> t1, events |-> checked \o marine]
                 ELSE IF /\ tool.quote_character # NoneStr
                         /\ Lower(tool.quote_character) \notin ValidQuoteCharacters
                 THEN [exc |-> "MarineError", tool |-> t2, events |-> checked \o marine]
                 ELSE [exc |-> "none", tool |-> t3, events |-> checked]

\* "Build the ASCII2SHP.EXE command line to execute": the words of cmd after
\* cmd.exe /c, or the "Programming error" MarineError.
BuildCommand(t) ==
    LET base == <<"ascii2shp.exe", "input_textfile", "output_shapefile", "xcol", "ycol">>
        z == IF t.zcol # NoneStr THEN <<"-z", t.zcol>> ELSE <<>>
        m == IF t.mcol # NoneStr THEN <<"-m", t.mcol>> ELSE <<>>
        d == IF t.delimiter = NoneStr THEN <<>>
             ELSE IF t.delimiter = "comma" THEN <<"-c">>
             ELSE IF t.delimiter = "space or tab" THEN <<"-t">>
             ELSE IF t.delimiter = "user specified" THEN <<"-d", t.delimiter_character>>
             ELSE <<"error">>
        q == IF t.quote_character = NoneStr THEN <<>>
             ELSE IF t.quote_character = "single quote" THEN <<"-a">>
             ELSE IF t.quote_character = "double quote" THEN <<"-q">>
             ELSE <<"error">>
        l == IF t.locale # NoneStr THEN <<"-l", t.locale>> ELSE <<>>
    IN  IF d = <<"error">> \/ q = <<"error">>
        THEN [exc |-> "MarineError", cmd |-> <<>>]
        ELSE [exc |-> "none", cmd |-> base \o z \o m \o d \o q \o l]

\* Ascii2Shp._run_tool up to the call of os.popen.
Validate ==
    /\ pc = "_run_tool"
    /\ tool.cls = "Ascii2Shp"
    /\ \E isfile \in BOOLEAN, exists \in {"False", "True", "raise"} :
        LET v == ValidateParameters(isfile, exists)
            b == BuildCommand(v.tool)
            enter == <<Event("_run_tool", "enter", tool.cls)>>
        IN  /\ tool' = v.tool
            /\ IF v.exc # "none"
               THEN EndRunTool(v.exc, enter \o v.events)
               ELSE IF b.exc # "none"
               THEN EndRunTool(b.exc, enter \o v.events
                                          \o <<Event("AddError", "MarineError", "")>>)
               ELSE /\ pc' = "popen"
                    /\ local' = [local EXCEPT !.cmd = b.cmd]
                    /\ Logged(enter \o v.events \o <<Event("_log", "info", "Executing")>>)
    /\ UNCHANGED <<seqVars, has_types, gp>>

\* f = os.popen(cmd): the child process is started.
Popen ==
    /\ pc = "popen"
    /\ \E ok \in BOOLEAN :
        IF ok
        THEN /\ pc' = "read"
             /\ tool' = [tool EXCEPT !.indent_level = @ + 2]
             /\ UNCHANGED local
             /\ Logged(<<Event("popen", "ascii2shp.exe", "ok")>>)
        ELSE /\ tool' = tool
             /\ EndRunTool("OSError", <<Event("popen", "ascii2shp.exe", "raise"),
                                        Event("_log", "error", "")>>)
    /\ UNCHANGED <<seqVars, has_types, gp>>

\* ascii2shp_output = f.read()
Read ==
    /\ pc = "read"
    /\ \E ok \in BOOLEAN :
        IF ok
        THEN /\ pc' = "close"
             /\ UNCHANGED <<tool, local>>
             /\ Logged(<<Event("read", "ascii2shp.exe", "ok")>>)
        ELSE /\ tool' = [tool EXCEPT !.indent_level = @ - 2]
             /\ EndRunTool("IOError", <<Event("read", "ascii2shp.exe", "raise"),
                                        Event("_log", "error", "")>>)
    /\ UNCHANGED <<seqVars, has_types, gp>>

\* ascii2shp_result = f.close(): None when the process exited with status 0.
Close ==
    /\ pc = "close"
    /\ \E result \in {"None", "1", "raise"} :
        /\ tool' = [tool EXCEPT !.indent_level = @ - 2]
        /\ IF result = "raise"
           THEN EndRunTool("IOError", <<Event("close", "ascii2shp.exe", result),
                                        Event("_log", "error", "")>>)
           ELSE IF result # "None"
           THEN EndRunTool("MarineError", <<Event("close", "ascii2shp.exe", result),
                                            Event("_log", "error", ""),
                                            Event("AddError", "MarineError", "")>>)
           ELSE /\ pc' = "RefreshCatalog shapefile"
                /\ UNCHANGED local
                /\ Logged(<<Event("close", "ascii2shp.exe", result),
                            Event("_log", "info", "completed successfully")>>)
    /\ UNCHANGED <<seqVars, has_types, gp>>

\* The words logged by a RefreshCatalog call: a failure only logs a warning.
Refreshed(what, ok) ==
    IF ok
    THEN <<Event("RefreshCatalog", what, "ok")>>
    ELSE <<Event("RefreshCatalog", what, "raise"), Event("_log", "warning", what)>>

\* Geoprocessor.instance.RefreshCatalog(self.output_shapefile)
RefreshShapefile ==
    /\ pc = "RefreshCatalog shapefile"
    /\ \E ok \in BOOLEAN : Logged(Refreshed("output_shapefile", ok))
    /\ pc' = "RefreshCatalog directory"
    /\ UNCHANGED <<seqVars, has_types, tool, local, gp>>

\* Geoprocessor.instance.RefreshCatalog(dirname(dirname(output_shapefile))),
\* then the test of coordinate_system.
RefreshDirectory ==
    /\ pc = "RefreshCatalog directory"
    /\ \E ok \in BOOLEAN :
        IF tool.coordinate_system # NoneStr
        THEN /\ pc' = "DefineProjection"
             /\ UNCHANGED local
             /\ Logged(Refreshed("directory", ok)
                           \o <<Event("_log", "info", "Defining the projection")>>)
        ELSE EndRunTool("none", Refreshed("directory", ok))
    /\ UNCHANGED <<seqVars, has_types, tool, gp>>

\* Geoprocessor.instance.DefineProjection_management(output_shapefile,
\* coordinate_system)
DefineProjection ==
    /\ pc = "DefineProjection"
    /\ \E ok \in BOOLEAN :
        EndRunTool(IF ok THEN "none" ELSE "COMError",
                   <<Event("DefineProjection_management", tool.coordinate_system,
                           IF ok THEN "ok" ELSE "raise")>>)
    /\ UNCHANGED <<seqVars, has_types, tool, gp>>

NextTool ==
    \/ RunStart
    \/ CheckProduct
    \/ SetProduct
    \/ CheckExtension
    \/ CheckOutExtension
    \/ RunToolBase
    \/ RunToolDerived
    \/ Validate
    \/ Popen
    \/ Read
    \/ Close
    \/ RefreshShapefile
    \/ RefreshDirectory
    \/ DefineProjection
    \/ CheckInExtension
    \/ RunComplete
    \/ RunFailed

SpecTool == InitTool /\ [][NextTool]_vars

\* ------------------------------------------------------------------ C14
\* The positions of the log before position i that hold a call of name.
Before(i, name) == {j \in 1..(i - 1) : log[j][1] = name}

\* The call at position i of the log is a call of name with the given result.
IsCall(i, name, result) == log[i][1] = name /\ log[i][3] = result

\* C14: in Ascii2Shp._run_tool the ascii2shp.exe process is started only
\* after the whole validation has passed (the input file exists, the output
\* shapefile does not exist, the delimiter is comma, space or tab, or user
\* specified with a delimiter_character of one character, a given quote
\* character is single quote or double quote); DefineProjection_management
\* is called only when a coordinate_system was given, only after the process
\* ended with success and only after both RefreshCatalog calls were made; a
\* failing RefreshCatalog call is logged as a warning and does not end the
\* tool: a later failure of _run_tool comes from DefineProjection_management.
C14_ProcessAfterValidation ==
    \A i \in DOMAIN log :
        /\ log[i][1] = "popen" =>
            /\ \E j \in Before(i, "isfile") : IsCall(j, "isfile", "True")
            /\ \E j \in Before(i, "Exists") : IsCall(j, "Exists", "False")
            /\ \A j \in Before(i, "Exists") : IsCall(j, "Exists", "False")
            /\ tool.delimiter \in ValidDelimiters
            /\ tool.delimiter = "user specified" =>
                   /\ tool.delimiter_character # NoneStr
                   /\ StrLen(tool.delimiter_character) = 1
            /\ tool.quote_character # NoneStr =>
                   tool.quote_character \in ValidQuoteCharacters
        /\ log[i][1] = "DefineProjection_management" =>
            /\ tool.coordinate_system # NoneStr
            /\ \E j \in Before(i, "close") : IsCall(j, "close", "None")
            /\ Cardinality(Before(i, "RefreshCatalog")) = 2
        /\ (log[i][1] = "RefreshCatalog" /\ log[i][3] = "raise") =>
            /\ i + 1 \in DOMAIN log
            /\ log[i + 1][1] = "_log"
            /\ log[i + 1][2] = "warning"
            /\ \A k \in DOMAIN log :
                   (k > i /\ log[k][1] = "_run_tool" /\ log[k][2] = "raise")
                       => \E j \in Before(k, "DefineProjection_management") :
                              IsCall(j, "DefineProjection_management", "raise")

\* A run with a user specified delimiter and a coordinate system in which a
\* RefreshCatalog call failed, the projection was defined and run() returned.
C14_Witness ==
    /\ pc = "returned"
    /\ tool.cls = "Ascii2Shp"
    /\ tool.delimiter = "user specified"
    /\ tool.quote_character = "single quote"
    /\ \E i \in DOMAIN log : log[i][1] = "popen" /\ log[i][3] = "ok"
    /\ \E i \in DOMAIN log : log[i][1] = "RefreshCatalog" /\ log[i][3] = "raise"
    /\ \E i \in DOMAIN log : IsCall(i, "DefineProjection_management", "ok")

\* ------------------------------------------------------------------ C15
\* The check-out of an extension has failed: CheckExtension reported a status
\* other than available, or CheckExtension or CheckOutExtension raised.
CheckoutFailed ==
    \E i \in DOMAIN log :
        \/ log[i][1] = "CheckExtension" /\ log[i][3] # "Available"
        \/ log[i][1] = "CheckOutExtension" /\ log[i][3] = "raise"

\* C15: when the check-out of a requested extension fails in run(), _run_tool
\* is never executed, run() ends in failure, and a check-in has been made for
\* every extension checked out before the failure.
C15_FailedCheckoutFailsRun ==
    CheckoutFailed =>
        /\ \A i \in DOMAIN log : log[i][1] # "_run_tool"
        /\ pc # "returned"
        /\ pc = "raised" =>
               \A i \in DOMAIN log :
                   (log[i][1] = "CheckOutExtension" /\ log[i][3] = "ok") =>
                       \E j \in DOMAIN log :
                           /\ j > i
                           /\ log[j][1] = "CheckInExtension"
                           /\ log[j][2] = log[i][2]

\* ------------------------------------------------------------------ C16
\* run() is past its finally clause.
PastCheckin == pc \in {"complete", "except", "returned", "raised"}

\* C16: when extensions were requested and _run_tool was entered, then once
\* run() is past its finally clause a CheckInExtension call has been made,
\* after the end of _run_tool, for every requested extension, whether
\* _run_tool returned or raised; when it raised, run() takes the failure
\* path with the exception of _run_tool as the one raised to the caller, and
\* the failure is logged after the check-in calls.
C16_CheckinAfterRunTool ==
    \A i \in DOMAIN log :
        (/\ tool.requested
         /\ PastCheckin
         /\ log[i][1] = "_run_tool"
         /\ log[i][2] \in {"return", "raise"})
            => /\ \A k \in DOMAIN tool.extensions :
                      \E j \in DOMAIN log :
                          /\ j > i
                          /\ log[j][1] = "CheckInExtension"
                          /\ log[j][2] = tool.extensions[k]
               /\ log[i][2] = "return" => pc \in {"complete", "returned"}
               /\ log[i][2] = "raise" =>
                      /\ pc \in {"except", "raised"}
                      /\ local.exc = log[i][3]
                      /\ pc = "raised" =>
                             /\ log[Len(log)][1] = "_log"
                             /\ log[Len(log)][3] = "failed"
                      /\ \A f \in DOMAIN log :
                             (log[f][1] = "_log" /\ log[f][3] = "failed") =>
                                 \A j \in DOMAIN log :
                                     (j > i /\ log[j][1] = "CheckInExtension") => j < f

\* A tool with two extensions whose _run_tool raised: both were checked in
\* (the first check-in failing), then the failure was logged and the
\* exception of _run_tool raised.
C16_Witness ==
    /\ pc = "raised"
    /\ tool.requested
    /\ Len(tool.extensions) = 2
    /\ local.exc = "COMError"
    /\ \E i \in DOMAIN log :
           /\ log[i][1] = "_run_tool"
           /\ log[i][2] = "raise"
           /\ \E j \in DOMAIN log :
                  /\ j > i
                  /\ log[j][1] = "CheckInExtension"
                  /\ log[j][2] = 1
                  /\ log[j][3] = "raise"
           /\ \E j \in DOMAIN log :
                  /\ j > i
                  /\ log[j][1] = "CheckInExtension"
                  /\ log[j][2] = 2
                  /\ log[j][3] = "ok"

====
